---------------------------- MODULE Spec2Model ----------------------------
(***************************************************************************)
(* A model of the step-function interpreter of                             *)
(* serverless-step-functions-offline (src/src/index.ts).                   *)
(*                                                                         *)
(* The plugin object's fields are the variables.  One JavaScript job (the  *)
(* body of a promise reaction or of a timer callback) is one action: the   *)
(* synchronous call tree it runs, process -> _findStep -> _states -> _run  *)
(* -> cb -> process ..., is computed by recursive operators over a record  *)
(* `g' holding the fields, and the action stores the record's fields back. *)
(* Objects and arrays live in a heap and are handled through references,   *)
(* because the code passes and mutates them in place.                      *)
(***************************************************************************)
EXTENDS Integers, Sequences, FiniteSets, TLC

(***************************************************************************)
(* JavaScript values.  Every value is a record of one shape, so that any   *)
(* two values can be compared.                                             *)
(***************************************************************************)
VNum(i) == [t |-> "num", n |-> i, s |-> ""]
VStr(str) == [t |-> "str", n |-> 0, s |-> str]
VBool(b) == [t |-> "bool", n |-> IF b THEN 1 ELSE 0, s |-> ""]
VNull == [t |-> "null", n |-> 0, s |-> ""]
VUndef == [t |-> "undef", n |-> 0, s |-> ""]
VRef(a) == [t |-> "ref", n |-> a, s |-> ""]

\* JavaScript truthiness, as used by `if (item)` and `Result || event'.
Truthy(v) ==
  CASE v.t = "num" -> v.n # 0
    [] v.t = "str" -> v.s # ""
    [] v.t = "bool" -> v.n = 1
    [] v.t = "ref" -> TRUE
    [] OTHER -> FALSE

\* lodash _.isNil
isNil(v) == v.t \in {"null", "undef"}

\* The property names that occur in events and static results.
Keys == {"n", "x", "y", "items", "res", "secs", "ts", "a", "b", "a.b"}

NoFields == [k \in Keys |-> VUndef]

\* A heap object is a plain object (its fields) or an array (its elements).
Obj(fields) ==
  [k |-> "obj",
   f |-> [key \in Keys |-> IF key \in DOMAIN fields THEN fields[key] ELSE VUndef],
   a |-> <<>>]
Arr(elems) == [k |-> "arr", f |-> NoFields, a |-> elems]

\* A JSONPath as the definition writes it: "$.a.b" is [dollar |-> TRUE,
\* segs |-> <<"a","b">>]; a string without the "$." prefix has dollar FALSE.
Path(segs) == [dollar |-> TRUE, segs |-> segs]
NoPath == [dollar |-> FALSE, segs |-> <<>>]

\* lodash _.get(object, path) for a path already split in segments.
RECURSIVE GetPath(_, _, _)
GetPath(h, v, segs) ==
  IF segs = <<>> THEN v
  ELSE IF v.t # "ref" THEN VUndef
  ELSE IF h[v.n].k # "obj" \/ Head(segs) \notin Keys THEN VUndef
  ELSE GetPath(h, h[v.n].f[Head(segs)], Tail(segs))

\* A value with the objects it refers to copied in, to depth d: what a log
\* line printing the value would show.
RECURSIVE Snap(_, _, _)
Snap(h, v, d) ==
  IF v.t # "ref" THEN v
  ELSE IF d = 0 THEN [k |-> "cut"]
  ELSE IF h[v.n].k = "obj"
    THEN [k |-> "obj", f |-> [key \in Keys |-> Snap(h, h[v.n].f[key], d - 1)]]
    ELSE [k |-> "arr",
          a |-> [i \in 1..Len(h[v.n].a) |-> Snap(h, h[v.n].a[i], d - 1)]]


(***************************************************************************)
(* State-machine definitions (StateMachine['definition']).  A definition   *)
(* is [StartAt, States]; a program names its definitions: "main" and one   *)
(* per Parallel branch and per Map iterator.  A state is a record of the   *)
(* fields the interpreter reads; a field the definition leaves out has the *)
(* value that reading it gives in JavaScript (undefined: "", VUndef,       *)
(* NoPath, <<>>).                                                          *)
(***************************************************************************)
State0 ==
  [Type |-> "", Next |-> "", Result |-> VUndef, ResultPath |-> NoPath,
   Choices |-> <<>>, Default |-> "", Branches |-> <<>>, Iterator |-> "",
   ItemsPath |-> NoPath, Parameters |-> <<>>,
   \* Object.keys of the state without Type, Next and Result, in order
   Fields |-> <<>>,
   Seconds |-> 0, Timestamp |-> 0, SecondsPath |-> NoPath,
   TimestampPath |-> NoPath, Cause |-> "", Error |-> ""]

\* states[name] for a name that is no key of states
NoState == [State0 EXCEPT !.Type = "undefined"]

Pass(result, next) ==
  [State0 EXCEPT !.Type = "Pass", !.Result = result, !.Next = next]
Succeed(next) == [State0 EXCEPT !.Type = "Succeed", !.Next = next]
Fail(cause, error) ==
  [State0 EXCEPT !.Type = "Fail", !.Cause = cause, !.Error = error,
                 !.Fields = <<"Cause", "Error">>]
Task(next) == [State0 EXCEPT !.Type = "Task", !.Next = next]
WaitSeconds(secs, next) ==
  [State0 EXCEPT !.Type = "Wait", !.Seconds = secs, !.Next = next,
                 !.Fields = <<"Seconds">>]
WaitTimestamp(ts, next) ==
  [State0 EXCEPT !.Type = "Wait", !.Timestamp = ts, !.Next = next,
                 !.Fields = <<"Timestamp">>]
WaitSecondsPath(p, next) ==
  [State0 EXCEPT !.Type = "Wait", !.SecondsPath = p, !.Next = next,
                 !.Fields = <<"SecondsPath">>]
WaitTimestampPath(p, next) ==
  [State0 EXCEPT !.Type = "Wait", !.TimestampPath = p, !.Next = next,
                 !.Fields = <<"TimestampPath">>]
Parallel(branches, next) ==
  [State0 EXCEPT !.Type = "Parallel", !.Branches = branches, !.Next = next,
                 !.Fields = <<"Branches">>]
Map(itemsPath, iterator, resultPath, next) ==
  [State0 EXCEPT !.Type = "Map", !.ItemsPath = itemsPath,
                 !.Iterator = iterator, !.ResultPath = resultPath,
                 !.Next = next, !.Fields = <<"ItemsPath", "Iterator">>]
\* A Choice rule: Variable, one comparison operator with its value, Next.
Rule(variable, op, value, next) ==
  [Variable |-> variable, Op |-> op, Value |-> value, Next |-> next]
Choice(choices, default) ==
  [State0 EXCEPT !.Type = "Choice", !.Choices = choices, !.Default = default,
                 !.Fields = <<"Choices">>]

Def(startAt, states) == [StartAt |-> startAt, States |-> states]

\* definition.States[name]; an absent definition (the {} that subStates is
\* reset to) has no states
StateOf(defs, scope, name) ==
  IF scope \in DOMAIN defs /\ name \in DOMAIN defs[scope].States
    THEN defs[scope].States[name]
    ELSE NoState

(***************************************************************************)
(* serverless.service.custom.stepFunctionsOffline (this.variables) and     *)
(* serverless.service.functions (this.functions) of the runs checked:      *)
(* state T maps to a function with a handler and an environment, T2 to a   *)
(* function name the service does not define, T3 to a function without a   *)
(* handler, T4 to a function with another handler and an environment that  *)
(* overrides a variable of the host; no other state name is mapped.        *)
(***************************************************************************)
EnvKeys == {"STEP_IS_OFFLINE", "A", "B"}
variables ==
  ("T" :> "fnT") @@ ("T2" :> "fnGone") @@ ("T3" :> "fnPlain")
  @@ ("T4" :> "fnU")
functions ==
  ("fnT" :> [handler |-> "src/first.hello", environment |-> ("A" :> "t")]) @@
  ("fnU" :> [handler |-> "src/second.run", environment |-> ("B" :> "u")]) @@
  ("fnPlain" :> [handler |-> "", environment |-> ("A" :> "p")])
\* definitionIsHandler(f): the function definition declares a handler
definitionIsHandler(f) == f.handler # ""
\* _findFunctionPathAndHandler(f.handler).handler: the text after the dot
\* of the handler's base name
handlerName(f) ==
  CASE f.handler = "src/first.hello" -> "hello"
    [] f.handler = "src/second.run" -> "run"
    [] OTHER -> "undefined"
\* The members every promise has
PromiseMembers == {"then", "catch", "finally", "constructor"}
\* f of a Task step: import(path)[handler].  The brackets index the promise
\* that import returns, not the module it resolves to: the value is
\* undefined unless the handler is named like a member of a promise.
taskF(f) ==
  IF handlerName(f) \in PromiseMembers THEN "function" ELSE "undefined"

(***************************************************************************)
(* The plugin object and the JavaScript runtime around it.                 *)
(***************************************************************************)
VARIABLES
  stateDefinition,            \* the definitions of the run: scope -> [StartAt, States]
  loadedEventFile,            \* the input event (a reference) or undefined
  environmentVariables,       \* the baseline stored by loadEnvVariables
  processEnv,                 \* process.env
  mapResults,                 \* this.mapResults: a reference to an array
  eventForParallelExecution,  \* this.eventForParallelExecution
  currentState,               \* this.currentState / currentStateName: [scope, name]
  contextObject,              \* the States the main context object's cb closes over
  subContextObject,           \* the same for this.subContextObject, "" when null
  subStates,                  \* this.subStates: a scope, "empty" for {}
  states,                     \* this.states: a scope
  parallelBranch,             \* this.parallelBranch: a branch's scope, "" when unset
  eventParallelResult,        \* this.eventParallelResult: a reference to an array
  heap,                       \* the objects and arrays allocated so far
  microtasks,                 \* the promise job queue (FIFO)
  timers,                     \* the setTimeout callbacks not yet fired
  now,                        \* the clock, in milliseconds
  maps,                       \* one record per call of a Map state's f
  topPromise,                 \* the promise buildStepWorkFlow returned
  faults,                     \* errors no caller received
  crashed,                    \* an uncaught exception ended the process
  log                         \* what happened, in order (history)

vars ==
  <<stateDefinition, loadedEventFile, environmentVariables, processEnv,
    mapResults, eventForParallelExecution, currentState, contextObject,
    subContextObject, subStates, states, parallelBranch, eventParallelResult,
    heap, microtasks, timers, now, maps, topPromise, faults, crashed, log>>

\* this.currentState = null
NoCurrent == [scope |-> "", name |-> ""]
\* The state that makes a transition, for the history
From(scope, name, at) == [scope |-> scope, name |-> name, at |-> at]
NoError == [kind |-> "", name |-> ""]

\* The fields as one record, with the registers of a synchronous run:
\* thrown (the exception in flight), ret (what process returned: undefined,
\* a resolved promise, or the promise of Map call mid), data (what _states
\* returned) and existsAnyMatches (the local of _runChoice).
Pack ==
  [stateDefinition |-> stateDefinition,
   environmentVariables |-> environmentVariables, processEnv |-> processEnv,
   mapResults |-> mapResults,
   eventForParallelExecution |-> eventForParallelExecution,
   currentState |-> currentState, contextObject |-> contextObject,
   subContextObject |-> subContextObject, subStates |-> subStates,
   states |-> states, parallelBranch |-> parallelBranch,
   eventParallelResult |-> eventParallelResult, heap |-> heap,
   microtasks |-> microtasks, timers |-> timers, now |-> now, maps |-> maps,
   topPromise |-> topPromise, faults |-> faults, log |-> log,
   thrown |-> NoError, ret |-> [kind |-> "undefined", mid |-> 0],
   data |-> "undefined", existsAnyMatches |-> FALSE]

Unpack(g) ==
  /\ processEnv' = g.processEnv
  /\ mapResults' = g.mapResults
  /\ eventForParallelExecution' = g.eventForParallelExecution
  /\ currentState' = g.currentState
  /\ contextObject' = g.contextObject
  /\ subContextObject' = g.subContextObject
  /\ subStates' = g.subStates
  /\ states' = g.states
  /\ parallelBranch' = g.parallelBranch
  /\ eventParallelResult' = g.eventParallelResult
  /\ heap' = g.heap
  /\ microtasks' = g.microtasks
  /\ timers' = g.timers
  /\ now' = g.now
  /\ maps' = g.maps
  /\ topPromise' = g.topPromise
  /\ faults' = g.faults
  /\ log' = g.log
  /\ UNCHANGED <<stateDefinition, loadedEventFile, environmentVariables>>

Thrown(g) == g.thrown.kind # ""
Throw(g, kind, name) == [g EXCEPT !.thrown = [kind |-> kind, name |-> name]]
Return(g, kind, mid) == [g EXCEPT !.ret = [kind |-> kind, mid |-> mid]]

\* A new object or array; its address is Len of the heap afterwards.
Alloc(g, o) == [g EXCEPT !.heap = Append(@, o)]
\* array.push(v)
Push(g, a, v) == [g EXCEPT !.heap[a].a = Append(@, v)]
\* object[key] = v
SetField(g, a, key, v) == [g EXCEPT !.heap[a].f[key] = v]

\* One line of the history.  kind "dispatch": process was called for state
\* name looked up in scope, by the transition `via' of the state `from'
\* (from.at: the line of that state's own dispatch, 0 when the transition
\* was read off the cursor this.currentState); "cb": the completion callback
\* was called by the state (scope, name), while this.currentState was
\* `from'; "timer": a Wait state scheduled its timer with num seconds at
\* time from.at; "error": an exception was thrown by the state (scope, name);
\* "signal": the handler of the state dispatched at line from.at called the
\* member `via' of its context object with the error value ref.
\* ev is the event (the result) as it was then, ref the value itself.
Entry(kind, scope, name, type, via, from, h, v, num) ==
  [kind |-> kind, scope |-> scope, name |-> name, type |-> type, via |-> via,
   from |-> from, ev |-> Snap(h, v, 3), ref |-> v, num |-> num]
Log(g, e) == [g EXCEPT !.log = Append(@, e)]

(***************************************************************************)
(* Helpers of the state strategies.                                        *)
(***************************************************************************)
MsPerSecond == 1000

\* Integer division rounding toward zero (moment's diff truncates).
TruncDiv(a, b) == IF a >= 0 THEN a \div b ELSE -((-a) \div b)

\* "a.b" for the segments a, b: the text of a path after its "$."
JoinDots(segs) ==
  IF Len(segs) = 1 THEN segs[1]
  ELSE IF segs = <<"a", "b">> THEN "a.b" ELSE "other"

\* path.split('$.')[1]: the text after "$.", undefined ("") without one
SplitDollar(p) == IF p.dollar /\ p.segs # <<>> THEN JoinDots(p.segs) ELSE ""

\* event[key]
Prop(h, event, key) ==
  IF event.t = "ref" /\ key \in Keys THEN h[event.n].f[key] ELSE VUndef

\* moment(target).diff(currentTime, 'seconds'); instants are epoch
\* milliseconds, and a value that is no instant gives NaN
momentDiff(target, currentTime) ==
  IF target.t = "num" THEN TruncDiv(target.n - currentTime, MsPerSecond) ELSE 0

waitListKeys == {"Seconds", "Timestamp", "TimestampPath", "SecondsPath"}

\* _waitState without `if (timeDiff > 0)': the difference is returned as it is
_waitState_unclamped(h, currentTime, event, state) ==
  LET waitKey == IF state.Fields = <<>> THEN "" ELSE state.Fields[1]
      tsValue == Prop(h, event, SplitDollar(state.TimestampPath))
      secValue == Prop(h, event, SplitDollar(state.SecondsPath))
  IN IF waitKey \notin waitListKeys
       THEN [err |-> "UnsupportedWaitOperator", waitTimer |-> 0]
     ELSE IF waitKey = "Seconds"
       THEN [err |-> "", waitTimer |-> state.Seconds]
     ELSE IF waitKey = "Timestamp"
       THEN [err |-> "",
             waitTimer |-> momentDiff(VNum(state.Timestamp), currentTime)]
     ELSE IF waitKey = "TimestampPath"
       THEN IF tsValue.t = "undef"
              THEN [err |-> "TimestampPathMissing", waitTimer |-> 0]
              ELSE [err |-> "", waitTimer |-> momentDiff(tsValue, currentTime)]
     ELSE IF secValue.t = "undef"
       THEN [err |-> "SecondsPathMissing", waitTimer |-> 0]
       ELSE [err |-> "", waitTimer |-> secValue.n]

\* _waitState: the seconds to wait, or the error it throws.  A SecondsPath
\* value is returned as it is; the events checked hold numbers there.
_waitState(h, currentTime, event, state) ==
  LET waitKey == IF state.Fields = <<>> THEN "" ELSE state.Fields[1]
      tsValue == Prop(h, event, SplitDollar(state.TimestampPath))
      secValue == Prop(h, event, SplitDollar(state.SecondsPath))
      clamp(d) == IF d > 0 THEN d ELSE 0
  IN IF waitKey \notin waitListKeys
       THEN [err |-> "UnsupportedWaitOperator", waitTimer |-> 0]
     ELSE IF waitKey = "Seconds"
       THEN [err |-> "", waitTimer |-> state.Seconds]
     ELSE IF waitKey = "Timestamp"
       THEN [err |-> "",
             waitTimer |-> clamp(momentDiff(VNum(state.Timestamp), currentTime))]
     ELSE IF waitKey = "TimestampPath"
       THEN IF tsValue.t = "undef"
              THEN [err |-> "TimestampPathMissing", waitTimer |-> 0]
              ELSE [err |-> "",
                    waitTimer |-> clamp(momentDiff(tsValue, currentTime))]
     ELSE IF secValue.t = "undef"
       THEN [err |-> "SecondsPathMissing", waitTimer |-> 0]
       ELSE [err |-> "", waitTimer |-> secValue.n]

\* The delay Node gives a timer: setTimeout(f, ms) with ms < 1 waits 1 ms.
TimeoutDelay(waitTimer) ==
  IF waitTimer * MsPerSecond >= 1 THEN waitTimer * MsPerSecond ELSE 1

\* enumList.convertOperator[operator](value, compareWithValue); "" is a rule
\* with no supported operator, whose checkFunction is undefined.
SupportedOperators ==
  {"NumericEquals", "NumericGreaterThan", "NumericGreaterThanEquals",
   "NumericLessThan", "NumericLessThanEquals", "StringEquals",
   "BooleanEquals"}
checkFunction(op, v, w) ==
  CASE op = "NumericEquals" -> v.t = "num" /\ w.t = "num" /\ v.n = w.n
    [] op = "NumericGreaterThan" -> v.t = "num" /\ w.t = "num" /\ v.n > w.n
    [] op = "NumericGreaterThanEquals" ->
         v.t = "num" /\ w.t = "num" /\ v.n >= w.n
    [] op = "NumericLessThan" -> v.t = "num" /\ w.t = "num" /\ v.n < w.n
    [] op = "NumericLessThanEquals" ->
         v.t = "num" /\ w.t = "num" /\ v.n <= w.n
    [] op = "StringEquals" -> v.t = "str" /\ w.t = "str" /\ v.s = w.s
    [] op = "BooleanEquals" -> v.t = "bool" /\ w.t = "bool" /\ v.n = w.n
    [] OTHER -> FALSE

\* The compiled rules of a Choice state: the rules whose Variable has text
\* after "$." (case 'Choice' of _states drops the others).
choiceConditional(state) ==
  SelectSeq(state.Choices, LAMBDA c : SplitDollar(c.Variable) # "")

\* lodash _.get(object, path): the property named by the whole text if
\* there is one, else the nested path
lodashGet(h, v, segs) ==
  IF segs = <<>> THEN VUndef
  ELSE IF Len(segs) > 1 /\ Prop(h, v, JoinDots(segs)).t # "undef"
    THEN Prop(h, v, JoinDots(segs))
    ELSE GetPath(h, v, segs)

\* _passStateFields: the event a Pass state hands on
_passStateFields(state, event) ==
  IF state.ResultPath = NoPath
    THEN IF Truthy(state.Result) THEN state.Result ELSE event
    ELSE event

\* _passStateFields: its write event[variableName] = Result (or event)
passStateWrite(g, state, event) ==
  LET variableName == SplitDollar(state.ResultPath)
      written == IF Truthy(state.Result) THEN state.Result ELSE event
  IN IF state.ResultPath = NoPath THEN g
     ELSE IF event.t # "ref" THEN Throw(g, "TypeError", g.currentState.name)
     ELSE IF variableName \in Keys
       THEN SetField(g, event.n, variableName, written)
       ELSE g

\* A microtask: the reaction of a promise.  hops counts the pass-through
\* reactions (a .catch on a fulfilled promise, the adoption of a returned
\* promise) that run before it, each queued when the one before it ran.
Job(kind, mid, def, event, hops, err) ==
  [kind |-> kind, mid |-> mid, def |-> def, event |-> event, hops |-> hops,
   err |-> err]
Enqueue(g, job) == [g EXCEPT !.microtasks = Append(@, job)]

\* The context object _run hands to a state: subContextObject || contextObject
RunContext(g) ==
  IF g.subContextObject # "" THEN g.subContextObject ELSE g.contextObject

\* The params object of one Map iteration: the keys ending in ".$", each
\* with the item ("$$.Map.Item.Value") or the value at a "$." path of event.
parseValue(h, event, item, p) ==
  IF p.src = "item" THEN item
  ELSE IF p.src = "path" THEN lodashGet(h, event, p.path.segs)
  ELSE VUndef
MapParams(h, state, event, item) ==
  LET dyn == SelectSeq(state.Parameters, LAMBDA p : p.dyn)
      named(k) == {i \in 1..Len(dyn) : dyn[i].key = k}
  IN [k |-> "obj",
      f |-> [key \in Keys |->
               IF named(key) = {} THEN VUndef
               ELSE parseValue(h, event, item,
                               dyn[CHOOSE i \in named(key) :
                                     \A j \in named(key) : j <= i])],
      a |-> <<>>]

\* buildSubStepWorkFlow: its synchronous part; the call of process is the
\* reaction it queues
buildSubStepWorkFlow(g, mid, iterator, event) ==
  Enqueue([g EXCEPT !.subContextObject = iterator, !.subStates = iterator],
          Job("subStart", mid, iterator, event, 0, NoError))

\* processNextItem of Map call mid.  `first' is the call made by f itself;
\* the later ones are reactions, and the promise they return is adopted
\* through as many promises as iterations were started.
processNextItem(g, mid, first) ==
  LET m == g.maps[mid]
      state == StateOf(g.stateDefinition, m.scope, m.name)
      item == IF m.mapItems = <<>> THEN VUndef ELSE Head(m.mapItems)
      g1 == [g EXCEPT !.maps[mid].mapItems = IF @ = <<>> THEN @ ELSE Tail(@)]
      g2 == Alloc(g1, MapParams(g1.heap, state, m.event, item))
  IN IF Truthy(item) /\ state.Iterator # ""
       THEN buildSubStepWorkFlow(
              [g2 EXCEPT !.maps[mid].started = @ + 1], mid, state.Iterator,
              VRef(Len(g2.heap)))
       ELSE Enqueue(g1, Job("mapFinal", mid, "", VUndef,
                            IF first THEN 0 ELSE m.started + 1, NoError))

\* f of case 'Map': the synchronous part of a Map state
MapF(g, here, state, event) ==
  LET items == lodashGet(g.heap, event, state.ItemsPath.segs)
      isArray == items.t = "ref" /\ g.heap[items.n].k = "arr"
      g1 == Alloc(g, Arr(<<>>))
      g2 == [g1 EXCEPT !.mapResults = Len(g1.heap)]
      mid == Len(g.maps) + 1
      g3 == [g2 EXCEPT !.maps = Append(@,
               [event |-> event,
                mapItems |-> IF isArray THEN g.heap[items.n].a ELSE <<>>,
                scope |-> here.scope, name |-> here.name, at |-> here.at,
                observer |-> "", outer |-> 0, started |-> 0,
                settled |-> ""])]
  IN IF items.t # "undef" /\ ~isArray
       THEN Throw(g2, "TypeError", here.name)
       ELSE Return(processNextItem(g3, mid, TRUE), "map", mid)

(***************************************************************************)
(* The engine: process, _findStep, _states, _run, _runChoice and the       *)
(* completion callback cb.  They call each other, so one synchronous run   *)
(* is one evaluation of process or cb.  An exception propagates: once      *)
(* thrown is set, every caller returns the record as it is.                *)
(***************************************************************************)
RECURSIVE process(_, _, _, _, _, _)
RECURSIVE cb(_, _, _, _, _)
RECURSIVE forEachBranch(_, _, _, _)
RECURSIVE forEachChoice(_, _, _, _, _, _)

\* cb(null, result) of the context object made for ctxStates, called by the
\* state (scope, name).  It reads the cursor this.currentState.
cb(g, ctxStates, result, scope, name) ==
  LET cur == StateOf(g.stateDefinition, g.currentState.scope,
                     g.currentState.name)
      inBranch == g.parallelBranch # ""
      state == IF inBranch THEN g.parallelBranch ELSE ctxStates
      g0 == Log(g, Entry("cb", scope, name,
                         StateOf(g.stateDefinition, scope, name).Type, "",
                         From(g.currentState.scope, g.currentState.name, 0),
                         g.heap, result, 0))
      \* result ?? {}, evaluated where the result is pushed or handed on
      g1 == IF isNil(result) /\ (inBranch \/ cur.Next # "")
              THEN Alloc(g0, Obj(<<>>)) ELSE g0
      orEmpty == IF isNil(result) THEN VRef(Len(g1.heap)) ELSE result
      g2 == IF inBranch /\ cur.Next = ""
              THEN Push(g1, g1.eventParallelResult, orEmpty) ELSE g1
      g3 == IF cur.Next = "" THEN Push(g2, g2.mapResults, result) ELSE g2
  IN IF cur.Next # ""
       THEN process(g3, state, cur.Next, orEmpty, "cbNext",
                    From(g.currentState.scope, g.currentState.name, 0))
       ELSE g3

\* done(err, result) of the context object made for ctxStates, called by
\* the state (scope, name): cb with an error value.  A truthy err is thrown
\* as the text `Error in function "<this.currentStateName>": ...' before
\* anything else is done.
done_swallowed(g, err, ctxStates, result, scope, name) ==
  cb(g, ctxStates, result, scope, name)
done(g, err, ctxStates, result, scope, name) ==
  IF Truthy(err)
    THEN Throw(Log(g, Entry("error", scope, name,
                            StateOf(g.stateDefinition, scope, name).Type,
                            "ErrorInFunction",
                            From(g.currentState.scope, g.currentState.name, 0),
                            g.heap, err, 0)),
               "ErrorInFunction", g.currentState.name)
    ELSE cb(g, ctxStates, result, scope, name)
\* succeed: result => cb(null, result) and fail: err => cb(err), as the
\* arguments cb is called with
succeed(result) == [err |-> VNull, result |-> result]
fail(err) == [err |-> err, result |-> VUndef]

\* _.forEach(currentState.Branches, ...) of case 'Parallel', from branch i
forEachBranch(g, branches, i, from) ==
  IF i > Len(branches) \/ Thrown(g) THEN g
  ELSE LET branch == branches[i]
           g1 == [g EXCEPT !.parallelBranch = branch]
           g2 == IF Truthy(g1.eventForParallelExecution)
                   THEN process(g1, branch,
                                g1.stateDefinition[branch].StartAt,
                                g1.eventForParallelExecution, "branchStart",
                                from)
                   ELSE g1
       IN forEachBranch(g2, branches, i + 1, from)

\* process.env = Object.assign({}, this.environmentVariables): the Task
\* case starts from a copy of the stored baseline
resetEnv_kept(g) == g
resetEnv(g) == [g EXCEPT !.processEnv = g.environmentVariables]
\* _.extend(process.env, f.environment): the variables the function
\* declares replace those of the same name
extendEnv(env, environment) ==
  [k \in EnvKeys |->
     IF k \in DOMAIN environment THEN environment[k] ELSE env[k]]

\* _states: the step of a state, as the kind of what it returns; the Task
\* and Parallel cases do their work here
_states(g, here, state) ==
  LET name == here.name
      functionName == IF name \in DOMAIN variables THEN variables[name] ELSE ""
      g1 == resetEnv(g)
      f == functions[functionName]
      p1 == Alloc(g, Arr(<<>>))
      p2 == forEachBranch([p1 EXCEPT !.eventParallelResult = Len(p1.heap)],
                          state.Branches, 1, here)
      p3 == IF Thrown(p2) \/ state.Next = "" THEN p2
            ELSE process(p2, p2.states, state.Next,
                         VRef(p2.eventParallelResult), "parallelNext", here)
      p4 == Alloc(p3, Arr(<<>>))
  IN CASE state.Type = "Map" -> [g EXCEPT !.data = "map"]
       [] state.Type = "Task" ->
            IF functionName = "" \/ functionName \notin DOMAIN functions
              THEN Throw(Log(g1, Entry("error", here.scope, name, "Task",
                                       "FunctionNotPresented", here, g1.heap,
                                       VUndef, 0)),
                         "FunctionNotPresented", name)
            ELSE IF ~definitionIsHandler(f)
              THEN [g1 EXCEPT !.data = "undefined"]
            ELSE [g1 EXCEPT
                    !.processEnv = extendEnv(g1.processEnv, f.environment),
                    !.data = "task"]
       [] state.Type = "Parallel" ->
            IF Thrown(p3) THEN p3
            ELSE [p4 EXCEPT !.parallelBranch = "",
                            !.eventParallelResult = Len(p4.heap),
                            !.data = "undefined"]
       [] state.Type = "Choice" -> [g EXCEPT !.data = "choice"]
       [] state.Type = "Wait" -> [g EXCEPT !.data = "wait"]
       [] state.Type = "Pass" -> [g EXCEPT !.data = "pass"]
       [] state.Type \in {"Succeed", "Fail"} -> [g EXCEPT !.data = "promise"]
       [] OTHER -> [g EXCEPT !.data = "undefined"]

\* _findStep
_findStep(g, here, state) ==
  IF state.Type = "undefined"
    THEN [g EXCEPT !.currentState = NoCurrent, !.data = "undefined"]
    ELSE _states([g EXCEPT !.currentState =
                    [scope |-> here.scope, name |-> here.name]],
                 here, state)

\* _.forEach(data.choice, ...) of _runChoice, from rule i.  The iteratee
\* returns what process returns, a promise or undefined, and lodash stops a
\* forEach only on the value false: every rule is looked at.
forEachChoice(g, choice, i, result, any, from) ==
  IF Thrown(g) THEN g
  ELSE IF i > Len(choice) THEN [g EXCEPT !.existsAnyMatches = any]
  ELSE LET c == choice[i]
           functionResultValue == lodashGet(g.heap, result, c.Variable.segs)
       IN IF isNil(functionResultValue)
            THEN forEachChoice(g, choice, i + 1, result, any, from)
          ELSE IF c.Op \notin SupportedOperators
            THEN Throw(g, "TypeError", from.name)
          ELSE IF checkFunction(c.Op, functionResultValue, c.Value)
                  /\ c.Next # ""
            THEN forEachChoice(
                   process(g, g.states, c.Next, result, "choiceRule", from),
                   choice, i + 1, result, TRUE, from)
            ELSE forEachChoice(g, choice, i + 1, result, any, from)

\* _runChoice
_runChoice(g, from, state, result) ==
  LET g1 == forEachChoice(g, choiceConditional(state), 1, result, FALSE, from)
  IN IF Thrown(g1) THEN g1
     ELSE IF ~g1.existsAnyMatches /\ state.Default # ""
       THEN process(g1, g1.states, state.Default, result, "choiceDefault",
                    from)
       ELSE Return(g1, "undefined", 0)

\* _run(data.f(event), event): f of the state's step, then the call of the
\* function it returned with the context object's cb
_run(g, here, state, event) ==
  LET w == _waitState(g.heap, g.now, event, state)
      scope == here.scope
      name == here.name
      timer == [due |-> g.now + TimeoutDelay(w.waitTimer),
                states |-> RunContext(g), event |-> event,
                scope |-> scope, name |-> name]
      passed == passStateWrite(g, state, event)
  IN CASE g.data = "map" -> MapF(g, here, state, event)
       [] g.data = "task" ->
            \* if (!func) return; a promise member called without its
            \* promise throws a TypeError
            IF taskF(functions[variables[name]]) = "undefined"
                 \/ RunContext(g) = ""
              THEN Return(g, "undefined", 0)
              ELSE Throw(g, "TypeError", name)
       [] g.data = "wait" ->
            IF w.err # ""
              THEN Throw(Log(g, Entry("error", scope, name, "Wait", w.err,
                                      here, g.heap, VUndef, 0)),
                         w.err, name)
            ELSE IF RunContext(g) = "" THEN Return(g, "undefined", 0)
            ELSE Return(
                   Log([g EXCEPT !.timers = Append(@, timer)],
                       Entry("timer", scope, name, "Wait", state.Fields[1],
                             From(scope, name, g.now), g.heap, event,
                             w.waitTimer)),
                   "undefined", 0)
       [] g.data = "pass" ->
            IF RunContext(g) = "" THEN Return(g, "undefined", 0)
            ELSE IF Thrown(passed) THEN passed
            ELSE Return(cb(passed, RunContext(g),
                           _passStateFields(state, event), scope, name),
                        "undefined", 0)

\* process(state, stateName, event), the state being States[stateName] of
\* scope; via and from say which transition made the call (history only)
process(g, scope, stateName, event, via, from) ==
  LET state == StateOf(g.stateDefinition, scope, stateName)
      g0 == Log(g, Entry("dispatch", scope, stateName, state.Type, via, from,
                         g.heap, event, 0))
      g1 == IF state.Type = "Parallel"
              THEN [g0 EXCEPT !.eventForParallelExecution = event] ELSE g0
      here == From(scope, stateName, Len(g0.log))
      g2 == _findStep(g1, here, state)
  IN IF Thrown(g2) THEN g2
     ELSE IF g2.data \in {"undefined", "promise"}
       THEN Return(g2, "resolved", 0)
     ELSE IF g2.data = "choice" THEN _runChoice(g2, here, state, event)
     ELSE _run(g2, here, state, event)

(***************************************************************************)
(* Promises.  The promise of buildStepWorkFlow (topPromise) and the        *)
(* promise f of a Map state returns (maps[mid].settled) are the ones       *)
(* somebody may wait for.  A Map promise is waited for by the top promise  *)
(* when the first reaction returned it, by the iteration of an outer Map   *)
(* when that iteration's process returned it, and by nobody otherwise.     *)
(***************************************************************************)
Pending == [st |-> "pending", err |-> NoError, value |-> VUndef]
Fulfilled == [st |-> "fulfilled", err |-> NoError, value |-> VUndef]
Rejected(err) == [st |-> "rejected", err |-> err, value |-> VUndef]

\* The promise of Map call mid is rejected with err: whoever waits for it
\* hears of it, and with nobody waiting the rejection is unhandled.
RejectMap(g, mid, err) ==
  LET m == g.maps[mid]
      g1 == [g EXCEPT !.maps[mid].settled = "rejected"]
  IN IF m.observer = "top"
       THEN Enqueue(g1, Job("settleTop", 0, "", VUndef, 0, err))
     ELSE IF m.observer = "sub"
       THEN Enqueue(g1, Job("mapReject", m.outer, "", VUndef,
                            g1.maps[m.outer].started + 2, err))
     ELSE [g1 EXCEPT !.faults = Append(@, err)]

\* The promise of Map call mid is fulfilled.
FulfillMap(g, mid) ==
  LET m == g.maps[mid]
      g1 == [g EXCEPT !.maps[mid].settled = "fulfilled"]
  IN IF m.observer = "top"
       THEN Enqueue(g1, Job("settleTop", 0, "", VUndef, 0, NoError))
     ELSE IF m.observer = "sub"
       THEN Enqueue(g1, Job("nextItem", m.outer, "", VUndef, 2, NoError))
     ELSE g1

\* lodash _.set(object, path, value) for a path of one or two segments
lodashSet(g, v, segs, value) ==
  LET inner == Prop(g.heap, v, segs[1])
      g1 == Alloc(g, Obj(<<>>))
  IN IF v.t # "ref" \/ segs = <<>> \/ segs[1] \notin Keys THEN g
     ELSE IF Len(segs) = 1 THEN SetField(g, v.n, segs[1], value)
     ELSE IF segs[2] \notin Keys THEN g
     ELSE IF inner.t = "ref" THEN SetField(g, inner.n, segs[2], value)
     ELSE SetField(SetField(g1, v.n, segs[1], VRef(Len(g1.heap))),
                   Len(g1.heap), segs[2], value)

\* The reaction f of case 'Map' attaches to the end of the iterations
mapFinal(g, mid) ==
  LET m == g.maps[mid]
      state == StateOf(g.stateDefinition, m.scope, m.name)
      g1 == [g EXCEPT !.subContextObject = "", !.subStates = "empty"]
      g2 == IF state.ResultPath # NoPath
              THEN lodashSet(g1, m.event, state.ResultPath.segs,
                             VRef(g1.mapResults))
              ELSE g1
      g3 == Alloc(g2, Arr(<<>>))
      g4 == [g3 EXCEPT !.mapResults = Len(g3.heap)]
  IN IF state.Next # ""
       THEN process(g4, g4.states, state.Next, m.event, "mapNext",
                    From(m.scope, m.name, m.at))
       ELSE g4

(***************************************************************************)
(* The runs checked.  A case is the definitions of one state machine, the  *)
(* objects its definition and its input hold (heap0, the input event at    *)
(* address 1) and the input event.  Sub-definitions (the branches of a     *)
(* Parallel state, the iterator of a Map state) are drawn from a few       *)
(* shapes; tag tells the static results of different branches apart.       *)
(***************************************************************************)
MaxSeconds == 2
MaxItems == 2

StartClock == 10 * MsPerSecond

ShapeKinds ==
  {"pass", "result", "waitEnd", "wait", "succeed", "fail", "task",
   "taskUnmapped", "taskGone", "taskPlain", "taskOther", "choice",
   "passNext",
   "waitTaskGone", "passDangling", "startDangling", "passPath",
   "nestedParallel", "nestedMap"}

Sub(kind, tag, d) ==
  CASE kind = "pass" -> Def("S", "S" :> Pass(VUndef, ""))
    [] kind = "result" -> Def("S", "S" :> Pass(VNum(tag), ""))
    [] kind = "passNext" ->
         Def("R", ("R" :> Pass(VUndef, "S")) @@ ("S" :> Pass(VNum(tag), "")))
    [] kind = "waitEnd" -> Def("W", "W" :> WaitSeconds(d, ""))
    [] kind = "wait" ->
         Def("W", ("W" :> WaitSeconds(d, "S")) @@ ("S" :> Pass(VNum(tag), "")))
    [] kind = "passPath" ->
         Def("S", "S" :> [Pass(VNum(tag), "") EXCEPT
                            !.ResultPath = Path(<<"y">>)])
    [] kind = "nestedParallel" ->
         Def("R", ("R" :> Pass(VNum(tag), "Q"))
                  @@ ("Q" :> Parallel(<<"c1">>, "D"))
                  @@ ("D" :> Pass(VNum(tag + 10), "")))
    [] kind = "nestedMap" ->
         Def("M2", ("M2" :> Map(Path(<<"items">>), "c1", Path(<<"res">>), "D"))
                   @@ ("D" :> Pass(VNum(tag + 10), "")))
    [] kind = "passDangling" -> Def("S", "S" :> Pass(VUndef, "Nowhere"))
    [] kind = "startDangling" -> Def("Nowhere", "S" :> Pass(VUndef, ""))
    [] kind = "waitTaskGone" ->
         Def("W", ("W" :> WaitSeconds(d, "T2")) @@ ("T2" :> Task("")))
    [] kind = "succeed" ->
         Def("Ok", ("Ok" :> Succeed("S")) @@ ("S" :> Pass(VNum(tag), "")))
    [] kind = "fail" -> Def("Ko", "Ko" :> Fail("cause", "error"))
    [] kind = "task" ->
         Def("T", ("T" :> Task("S")) @@ ("S" :> Pass(VNum(tag), "")))
    [] kind = "taskUnmapped" ->
         Def("Tx", ("Tx" :> Task("S")) @@ ("S" :> Pass(VNum(tag), "")))
    [] kind = "taskGone" ->
         Def("T2", ("T2" :> Task("S")) @@ ("S" :> Pass(VNum(tag), "")))
    [] kind = "taskPlain" ->
         Def("T3", ("T3" :> Task("S")) @@ ("S" :> Pass(VNum(tag), "")))
    [] kind = "taskOther" ->
         Def("T4", ("T4" :> Task("S")) @@ ("S" :> Pass(VNum(tag), "")))
    [] kind = "choice" ->
         Def("C", ("C" :> Choice(<<Rule(Path(<<"n">>), "NumericGreaterThan",
                                        VNum(5), "S")>>, "D"))
                  @@ ("S" :> Pass(VNum(tag), ""))
                  @@ ("D" :> Pass(VNum(tag + 10), "")))

\* A shape with the seconds of its Wait state, where it has one
WaitKinds == {"wait", "waitEnd", "waitTaskGone"}
Shapes ==
  {[kind |-> k, d |-> 0] : k \in ShapeKinds \ WaitKinds}
  \cup {[kind |-> k, d |-> d] : k \in WaitKinds, d \in 1..MaxSeconds}

\* The definition a nested Parallel or Map state of a shape runs
Inner == "c1" :> Def("S", "S" :> Pass(VNum(9), ""))

Case(scopes, heap0, event) ==
  [scopes |-> scopes @@ Inner, heap0 |-> heap0, event |-> event]

\* The input events: {} , {n: 10} and no event file at all
EventN(v) == Obj("n" :> v)

\* Parallel(b1, b2) -> After
ParallelCase(s1, s2, next, ev) ==
  Case(("main" :> Def("P", ("P" :> Parallel(<<"b1", "b2">>, next))
                           @@ ("After" :> Pass(VUndef, ""))))
       @@ ("b1" :> Sub(s1.kind, 1, s1.d)) @@ ("b2" :> Sub(s2.kind, 2, s2.d)),
       <<ev>>, VRef(1))
ParallelCases ==
  {ParallelCase(s1, s2, next, ev) :
     s1 \in Shapes, s2 \in Shapes, next \in {"After"},
     ev \in {EventN(VNum(10)), Obj(<<>>)}}

\* Map over $.items with x.$ = $$.Map.Item.Value and b.$ = $.a, results at
\* $.res -> After, on the event {items: [...], a: 4};
\* the main definition also has a state D, a name some iterators use too
ItemValues == {VNum(0), VNum(1), VNum(2)}
ItemArrays ==
  UNION {[1..len -> ItemValues] : len \in 0..MaxItems}
MapState(next) ==
  [Map(Path(<<"items">>), "it", Path(<<"res">>), next) EXCEPT
     !.Parameters = <<[key |-> "x", dyn |-> TRUE, src |-> "item",
                       path |-> NoPath],
                      [key |-> "b", dyn |-> TRUE, src |-> "path",
                       path |-> Path(<<"a">>)]>>,
     !.Fields = <<"ItemsPath", "Iterator", "Parameters", "ResultPath">>]
MapCase(s, items, hasItems) ==
  Case(("main" :> Def("M", ("M" :> MapState("After"))
                           @@ ("After" :> Pass(VUndef, ""))
                           @@ ("D" :> Pass(VNum(99), ""))))
       @@ ("it" :> Sub(s.kind, 1, s.d)),
       <<IF hasItems THEN Obj(("items" :> VRef(2)) @@ ("a" :> VNum(4)))
         ELSE Obj(<<>>),
         Arr(items)>>,
       VRef(1))
MapCases ==
  {MapCase(s, items, TRUE) : s \in Shapes, items \in ItemArrays}
  \cup {MapCase(s, <<>>, FALSE) : s \in Shapes}

\* Choice: $.n > 5 -> Big, $.n > 1 -> Mid, Default Small (or none)
ChoiceCase(n, default) ==
  Case("main" :> Def("C",
         ("C" :> Choice(<<Rule(Path(<<"n">>), "NumericGreaterThan", VNum(5), "Big"),
                          Rule(Path(<<"n">>), "NumericGreaterThan", VNum(1), "Mid")>>,
                        default))
         @@ ("Big" :> Pass(VUndef, "")) @@ ("Mid" :> Pass(VUndef, ""))
         @@ ("Small" :> Pass(VUndef, ""))),
       <<EventN(n)>>, VRef(1))
ChoiceCases ==
  {ChoiceCase(n, default) :
     n \in {VUndef, VNull, VNum(1), VNum(3), VNum(10)},
     default \in {"", "Small"}}

\* A: Pass(Result r) -> B: Succeed, with the static result {x: 1} at address 2
PassResults ==
  {VUndef, VNull, VRef(2), VNum(0), VNum(7), VBool(FALSE), VBool(TRUE), VStr("")}
PassCase(r, hasEvent) ==
  Case("main" :> Def("A", ("A" :> Pass(r, "B")) @@ ("B" :> Succeed(""))),
       <<EventN(VNum(1)), Obj("x" :> VNum(1))>>,
       IF hasEvent THEN VRef(1) ELSE VUndef)
PassCases == {PassCase(r, e) : r \in PassResults, e \in BOOLEAN}

\* A: Pass(Result r, ResultPath p) -> B: Pass, for the paths $.y and $.a.b
PassPaths == {Path(<<"y">>), Path(<<"a", "b">>)}
PassPathCase(r, p) ==
  Case("main" :> Def("A", ("A" :> [Pass(r, "B") EXCEPT !.ResultPath = p])
                          @@ ("B" :> Pass(VUndef, ""))),
       <<EventN(VNum(1)), Obj("x" :> VNum(1))>>, VRef(1))
PassPathCases ==
  {PassPathCase(r, p) : r \in {VUndef, VRef(2), VNum(0), VNum(7)},
                        p \in PassPaths}

\* W: Wait -> After, for each of the four wait fields
Instants ==
  {StartClock - 2500, StartClock - 500, StartClock, StartClock + 500,
   StartClock + 2500}
\* The keys of a Wait state besides Type, Next and Result, in the order the
\* definition writes them: Seconds before or after a Comment, a Comment
\* alone, nothing at all
WaitFieldOrders ==
  {<<"Seconds", "Comment">>, <<"Comment", "Seconds">>, <<"Comment">>, <<>>}
WaitCase(w, ev) ==
  Case("main" :> Def("W", ("W" :> w) @@ ("After" :> Pass(VUndef, ""))),
       <<ev>>, VRef(1))
WaitCases ==
  {WaitCase(WaitSeconds(d, "After"), Obj(<<>>)) : d \in 0..MaxSeconds}
  \cup {WaitCase(WaitTimestamp(t, "After"), Obj(<<>>)) : t \in Instants}
  \cup {WaitCase(WaitTimestampPath(Path(<<"ts">>), "After"), Obj("ts" :> VNum(t))) :
          t \in Instants}
  \cup {WaitCase(WaitSecondsPath(Path(<<"secs">>), "After"), Obj("secs" :> VNum(d))) :
          d \in -1..MaxSeconds}
  \cup {WaitCase(WaitSecondsPath(Path(<<"secs">>), "After"), Obj(<<>>)),
        WaitCase(WaitTimestampPath(Path(<<"ts">>), "After"), Obj(<<>>))}
  \cup {WaitCase([WaitSeconds(1, "After") EXCEPT !.Fields = fields], Obj(<<>>)) :
          fields \in WaitFieldOrders}

\* A main flow that is one of the shapes
LinearCases ==
  {Case("main" :> Sub(s.kind, 1, s.d), <<EventN(VNum(10))>>, VRef(1)) :
     s \in Shapes}

Cases ==
  ParallelCases \cup MapCases \cup ChoiceCases \cup PassCases \cup WaitCases
  \cup LinearCases \cup PassPathCases

(***************************************************************************)
(* The state after the constructor and the hooks that run before           *)
(* buildStepWorkFlow (findState, loadEventFile, loadEnvVariables).         *)
(***************************************************************************)
HostEnv == [k \in EnvKeys |-> IF k = "B" THEN "host" ELSE ""]

Init ==
  \E c \in Cases :
    /\ stateDefinition = c.scopes
    /\ loadedEventFile = c.event
    /\ environmentVariables = [HostEnv EXCEPT !["STEP_IS_OFFLINE"] = "true"]
    /\ processEnv = [HostEnv EXCEPT !["STEP_IS_OFFLINE"] = "true"]
    /\ heap = c.heap0 \o <<Arr(<<>>), Arr(<<>>)>>
    /\ mapResults = Len(c.heap0) + 1
    /\ eventParallelResult = Len(c.heap0) + 2
    /\ eventForParallelExecution = VUndef
    /\ currentState = NoCurrent
    /\ contextObject = ""
    /\ subContextObject = ""
    /\ subStates = "empty"
    /\ states = "empty"
    /\ parallelBranch = ""
    /\ microtasks = <<>>
    /\ timers = <<>>
    /\ now = StartClock
    /\ maps = <<>>
    /\ topPromise = [st |-> "none", err |-> NoError, value |-> VUndef]
    /\ faults = <<>>
    /\ crashed = FALSE
    /\ log = <<>>

\* A job is run when it is at the head of the queue with no hop left.
Ready(kind) ==
  /\ ~crashed
  /\ microtasks # <<>>
  /\ Head(microtasks).kind = kind
  /\ Head(microtasks).hops = 0

\* The record a job starts from: the fields, the job taken off the queue
Taken == [Pack EXCEPT !.microtasks = Tail(microtasks)]

\* buildStepWorkFlow, up to the promise it returns
buildStepWorkFlow ==
  /\ ~crashed
  /\ topPromise.st = "none"
  /\ Unpack(Enqueue([Pack EXCEPT !.contextObject = "main", !.states = "main",
                                 !.topPromise = Pending],
                    Job("start", 0, "", VUndef, 0, NoError)))
  /\ UNCHANGED crashed

\* A pass-through reaction: the job behind it moves one place on
Hop ==
  /\ ~crashed
  /\ microtasks # <<>>
  /\ Head(microtasks).hops > 0
  /\ microtasks' = Append(Tail(microtasks),
                          [Head(microtasks) EXCEPT !.hops = @ - 1])
  /\ UNCHANGED <<stateDefinition, loadedEventFile, environmentVariables,
                 processEnv, mapResults, eventForParallelExecution,
                 currentState, contextObject, subContextObject, subStates,
                 states, parallelBranch, eventParallelResult, heap, timers,
                 now, maps, topPromise, faults, crashed, log>>

\* The reaction of buildStepWorkFlow: process of the StartAt state.  The top
\* promise takes what process returns: undefined fulfils it now, a resolved
\* promise after the adoption, a Map promise when that one settles.
Start ==
  /\ Ready("start")
  /\ LET main == stateDefinition["main"]
         g0 == IF isNil(loadedEventFile) THEN Alloc(Taken, Obj(<<>>)) ELSE Taken
         event == IF isNil(loadedEventFile) THEN VRef(Len(g0.heap))
                  ELSE loadedEventFile
         g == process(g0, g0.states, main.StartAt, event, "start",
                      From("", "", 0))
     IN IF main.StartAt = ""
          THEN Unpack([Taken EXCEPT !.topPromise =
                        Rejected([kind |-> "MissingStartAt", name |-> ""])])
        ELSE IF Thrown(g)
          THEN Unpack([g EXCEPT !.topPromise = Rejected(g.thrown)])
        ELSE IF g.ret.kind = "undefined"
          THEN Unpack([g EXCEPT !.topPromise = Fulfilled])
        ELSE IF g.ret.kind = "resolved"
          THEN Unpack(Enqueue(g, Job("settleTop", 0, "", VUndef, 1, NoError)))
        ELSE Unpack([g EXCEPT !.maps[g.ret.mid].observer = "top"])
  /\ UNCHANGED crashed

\* The reaction of buildSubStepWorkFlow: process of the iterator's StartAt
\* state, looked up in this.subStates as it is now
SubStart ==
  /\ Ready("subStart")
  /\ LET job == Head(microtasks)
         g == process(Taken, subStates, stateDefinition[job.def].StartAt,
                      job.event, "subStart",
                      From(maps[job.mid].scope, maps[job.mid].name,
                           maps[job.mid].at))
     IN IF Thrown(g)
          THEN Unpack(Enqueue([g EXCEPT !.thrown = NoError],
                              Job("mapReject", job.mid, "", VUndef,
                                  g.maps[job.mid].started + 1, g.thrown)))
        ELSE IF g.ret.kind = "undefined"
          THEN Unpack(Enqueue(g, Job("nextItem", job.mid, "", VUndef, 1, NoError)))
        ELSE IF g.ret.kind = "resolved"
          THEN Unpack(Enqueue(g, Job("nextItem", job.mid, "", VUndef, 3, NoError)))
        ELSE Unpack([g EXCEPT !.maps[g.ret.mid].observer = "sub",
                              !.maps[g.ret.mid].outer = job.mid])
  /\ UNCHANGED crashed

\* .then(() => processNextItem())
NextItem ==
  /\ Ready("nextItem")
  /\ Unpack(processNextItem(Taken, Head(microtasks).mid, FALSE))
  /\ UNCHANGED crashed

\* The last reaction of a Map state: results, Next
MapFinal ==
  /\ Ready("mapFinal")
  /\ LET mid == Head(microtasks).mid
         g == mapFinal(Taken, mid)
     IN IF Thrown(g)
          THEN Unpack(RejectMap([g EXCEPT !.thrown = NoError], mid, g.thrown))
          ELSE Unpack(Enqueue(g, Job("mapDone", mid, "", VUndef, 1, NoError)))
  /\ UNCHANGED crashed

\* The promise of a Map state is fulfilled
MapDone ==
  /\ Ready("mapDone")
  /\ Unpack(FulfillMap(Taken, Head(microtasks).mid))
  /\ UNCHANGED crashed

\* The promise of a Map state is rejected
MapReject ==
  /\ Ready("mapReject")
  /\ Unpack(RejectMap(Taken, Head(microtasks).mid, Head(microtasks).err))
  /\ UNCHANGED crashed

\* The top promise settles
SettleTop ==
  /\ Ready("settleTop")
  /\ Unpack([Taken EXCEPT !.topPromise =
               IF Head(microtasks).err = NoError THEN Fulfilled
               ELSE Rejected(Head(microtasks).err)])
  /\ UNCHANGED crashed

\* The timer that is due first (the earlier scheduled of two due together)
NextTimer ==
  CHOOSE i \in 1..Len(timers) :
    \A j \in 1..Len(timers) :
      timers[i].due < timers[j].due \/ (timers[i].due = timers[j].due /\ i <= j)

\* A Wait state's timer fires, once the job queue is empty: cb(null, event).
\* An exception it throws has no caller: it ends the process.
TimerFire ==
  /\ ~crashed
  /\ microtasks = <<>>
  /\ timers # <<>>
  /\ LET i == NextTimer
         t == timers[i]
         g == cb([Pack EXCEPT
                    !.timers = SubSeq(timers, 1, i - 1)
                               \o SubSeq(timers, i + 1, Len(timers)),
                    !.now = IF t.due > now THEN t.due ELSE now],
                 t.states, t.event, t.scope, t.name)
     IN /\ Unpack(IF Thrown(g) THEN [g EXCEPT !.faults = Append(@, g.thrown)]
                  ELSE g)
        /\ crashed' = Thrown(g)

Next ==
  \/ buildStepWorkFlow
  \/ Hop
  \/ Start
  \/ SubStart
  \/ NextItem
  \/ MapFinal
  \/ MapDone
  \/ MapReject
  \/ SettleTop
  \/ TimerFire

Spec == Init /\ [][Next]_vars

(***************************************************************************)
(* A handler that holds a context object.  _run hands every step function  *)
(* the context object of its scope (func(event, contextObject,             *)
(* contextObject.done)); the handler of a Task state calls one of its      *)
(* members when its work is over, once, from a job of its own.  The values *)
(* a handler passes are those the signatures admit: done(err, result) with *)
(* err null, undefined or an error, succeed(result), fail(err) with an     *)
(* error.  An exception the callback throws goes back to the handler,      *)
(* which catches it or not.                                                *)
(***************************************************************************)
HandlerCalls ==
  {[via |-> "done", args |-> [err |-> VNull, result |-> VNum(5)]],
   [via |-> "done", args |-> [err |-> VUndef, result |-> VUndef]],
   [via |-> "done", args |-> [err |-> VStr("boom"), result |-> VNum(5)]],
   [via |-> "succeed", args |-> succeed(VNum(5))],
   [via |-> "fail", args |-> fail(VStr("boom"))]}

\* The dispatches of Task states whose function has a handler that has not
\* signalled yet
Holders ==
  {i \in 1..Len(log) :
     /\ log[i].kind = "dispatch"
     /\ log[i].type = "Task"
     /\ log[i].name \in DOMAIN variables
     /\ variables[log[i].name] \in DOMAIN functions
     /\ definitionIsHandler(functions[variables[log[i].name]])
     /\ \A k \in 1..Len(log) :
          log[k].kind = "signal" => log[k].from.at # i}

\* The States the context object handed to the state dispatched at line i
\* closes over: those of the iterator for a state of a Map iteration, those
\* of the main definition otherwise
HolderContext(i) ==
  IF \E n \in DOMAIN stateDefinition["main"].States :
       stateDefinition["main"].States[n].Iterator = log[i].scope
    THEN log[i].scope ELSE "main"

HandlerSignals ==
  /\ ~crashed
  /\ microtasks = <<>>
  /\ \E i \in Holders, c \in HandlerCalls, caught \in BOOLEAN :
       LET scope == log[i].scope
           name == log[i].name
           g0 == Log(Pack, Entry("signal", scope, name, "Task", c.via,
                                 From(scope, name, i), heap, c.args.err, 0))
           g == done(g0, c.args.err, HolderContext(i), c.args.result,
                     scope, name)
       IN /\ Unpack(IF Thrown(g) THEN [g EXCEPT !.faults = Append(@, g.thrown)]
                    ELSE g)
          /\ crashed' = (Thrown(g) /\ ~caught)

NextHandler ==
  \/ Next
  \/ HandlerSignals

SpecHandler == Init /\ [][NextHandler]_vars


(***************************************************************************)
(* Reading the history.                                                    *)
(***************************************************************************)
Lines == 1..Len(log)
\* What a recorded value is: "obj", "arr", or a scalar
Kind(ev) == IF "k" \in DOMAIN ev THEN ev.k ELSE "scalar"
IsDispatch(i) == log[i].kind = "dispatch"
\* The definition of the state a line is about
LineState(i) == StateOf(stateDefinition, log[i].scope, log[i].name)
\* The dispatches made by the transition `vias' of the state dispatched at i
Successors(i, vias) ==
  {j \in Lines : IsDispatch(j) /\ log[j].via \in vias /\ log[j].from.at = i}
\* A Task state whose handler cannot be found in the manifest
MissingHandler(name) ==
  name \notin DOMAIN variables \/ variables[name] \notin DOMAIN functions

(***************************************************************************)
(* C1.  A Task whose name has no entry in the task-name map, or whose      *)
(* mapped function is absent from the manifest, makes process raise the    *)
(* error `Function "<name>" does not presented in serverless manifest';    *)
(* the run aborts and the Task's Next state is never dispatched.           *)
(* Stated on the history: the line after the dispatch of such a Task is    *)
(* that error, and no later line dispatches the Task's Next state in the   *)
(* Task's scope.                                                           *)
(***************************************************************************)
C1_MissingHandlerAborts ==
  \A i \in Lines :
    (IsDispatch(i) /\ log[i].type = "Task" /\ MissingHandler(log[i].name)) =>
      /\ i < Len(log)
      /\ log[i + 1].kind = "error"
      /\ log[i + 1].via = "FunctionNotPresented"
      /\ log[i + 1].name = log[i].name
      /\ \A j \in Lines :
           ~(/\ j > i
             /\ IsDispatch(j)
             /\ log[j].scope = log[i].scope
             /\ LineState(i).Next # ""
             /\ log[j].name = LineState(i).Next)

\* The rule's Variable is present in the event and its comparison holds
RuleMatches(rule, ev) ==
  /\ Kind(ev) = "obj"
  /\ SplitDollar(rule.Variable) \in Keys
  /\ ~isNil(ev.f[SplitDollar(rule.Variable)])
  /\ checkFunction(rule.Op, ev.f[SplitDollar(rule.Variable)], rule.Value)

(***************************************************************************)
(* C2.  When at least one rule of a Choice state matches the event, the    *)
(* Choice dispatches exactly one successor, the Next of the first matching *)
(* rule in declaration order; no later rule's Next and no Default is       *)
(* dispatched.                                                             *)
(***************************************************************************)
C2_ChoiceFirstMatchOnly ==
  \A i \in Lines :
    (IsDispatch(i) /\ log[i].type = "Choice") =>
      LET rules == LineState(i).Choices
          matching == {r \in 1..Len(rules) : RuleMatches(rules[r], log[i].ev)}
          first == CHOOSE r \in matching : \A q \in matching : r <= q
          succ == Successors(i, {"choiceRule", "choiceDefault"})
      IN matching # {} =>
           /\ Cardinality(succ) = 1
           /\ \A j \in succ : /\ log[j].via = "choiceRule"
                              /\ log[j].name = rules[first].Next

\* Branch b has reached a terminal state between the lines i and j
BranchDone(b, i, j) ==
  \E k \in (i + 1)..(j - 1) :
    /\ log[k].scope = b
    /\ \/ log[k].kind = "cb" /\ LineState(k).Next = ""
       \/ IsDispatch(k) /\ log[k].type \in {"Succeed", "Fail"}

(***************************************************************************)
(* C3.  A Parallel state dispatches its Next state only after every one of *)
(* its branches has reached a terminal state, and the event it hands to    *)
(* Next is the array of the branches' terminal results.                    *)
(* Stated on the history: before the line that dispatches Next there is,   *)
(* for each branch, a line where a state of the branch without Next        *)
(* completed or a Succeed or Fail state of the branch was dispatched.      *)
(***************************************************************************)
C3_ParallelJoinsBranches ==
  \A i \in Lines :
    (IsDispatch(i) /\ log[i].type = "Parallel") =>
      \A j \in Successors(i, {"parallelNext"}) :
        /\ Kind(log[j].ev) = "arr"
        /\ \A b \in 1..Len(LineState(i).Branches) :
             BranchDone(LineState(i).Branches[b], i, j)

(***************************************************************************)
(* C4.  For a Parallel state with k branches, the array handed to the      *)
(* Parallel's Next has exactly k entries, and entry b is the terminal      *)
(* result of the b-th declared branch: the result with which a state       *)
(* without Next completed in that branch.                                  *)
(***************************************************************************)
C4_ParallelResultPerBranch ==
  \A i \in Lines :
    (IsDispatch(i) /\ log[i].type = "Parallel") =>
      \A j \in Successors(i, {"parallelNext"}) :
        LET branches == LineState(i).Branches
            results == log[j].ev
        IN /\ Kind(results) = "arr"
           /\ Len(results.a) = Len(branches)
           /\ \A b \in 1..Len(branches) :
                \E k \in (i + 1)..(j - 1) :
                  /\ log[k].kind = "cb"
                  /\ log[k].scope = branches[b]
                  /\ LineState(k).Next = ""
                  /\ results.a[b] = log[k].ev

\* The items a Map dispatched at line i was given
ItemsOf(i) ==
  LET p == LineState(i).ItemsPath
      items == IF Kind(log[i].ev) = "obj" /\ SplitDollar(p) \in Keys
                 THEN log[i].ev.f[SplitDollar(p)] ELSE VUndef
  IN IF Kind(items) = "arr" THEN items.a ELSE <<>>
\* The run has nothing left to do
Quiet == microtasks = <<>> /\ timers = <<>>

(***************************************************************************)
(* C5.  A Map state over an array of n items, whatever their values, runs  *)
(* its iterator n times and hands its Next a results array of length n; an *)
(* empty array or an ItemsPath that resolves to nothing gives zero         *)
(* iterations, an empty results array, no error, and Next is dispatched.   *)
(* Stated on the history: when the Map's Next is dispatched, the iterator  *)
(* has been started once per item and ResultPath holds one result per      *)
(* item; and a Map without items dispatches its Next.                      *)
(***************************************************************************)
C5_MapOneResultPerItem ==
  \A i \in Lines :
    (IsDispatch(i) /\ log[i].type = "Map") =>
      /\ \A j \in Successors(i, {"mapNext"}) :
           LET res == IF Kind(log[j].ev) = "obj"
                        THEN log[j].ev.f[SplitDollar(LineState(i).ResultPath)]
                        ELSE VUndef
               started == {k \in Successors(i, {"subStart"}) : k < j}
           IN /\ Cardinality(started) = Len(ItemsOf(i))
              /\ Kind(res) = "arr"
              /\ Len(res.a) = Len(ItemsOf(i))
      /\ (ItemsOf(i) = <<>> /\ Quiet /\ LineState(i).Next # "") =>
           /\ Successors(i, {"mapNext"}) # {}
           /\ \A k \in Lines : log[k].kind # "error"

\* Every rule of the Choice at line i reads a variable the event lacks
AllAbsent(i) ==
  \A r \in 1..Len(LineState(i).Choices) :
    LET key == SplitDollar(LineState(i).Choices[r].Variable)
    IN Kind(log[i].ev) = "obj" /\ key \in Keys /\ isNil(log[i].ev.f[key])

(***************************************************************************)
(* C6.  A Choice rule whose variable is absent (undefined or null) in the  *)
(* event never matches and raises no error; when no rule matches, the      *)
(* Choice dispatches its Default state if one is declared, and otherwise   *)
(* dispatches no state.                                                    *)
(* Stated on the history, for a Choice all of whose rules read an absent   *)
(* variable: no rule's Next is dispatched, no error follows, and the       *)
(* Default state of the Choice's own definition is dispatched exactly when *)
(* a Default is declared.                                                  *)
(***************************************************************************)
C6_AbsentVariableFallsToDefault ==
  \A i \in Lines :
    (IsDispatch(i) /\ log[i].type = "Choice" /\ AllAbsent(i)) =>
      LET default == LineState(i).Default
      IN /\ Successors(i, {"choiceRule"}) = {}
         /\ i < Len(log) => log[i + 1].kind # "error"
         /\ default = "" => Successors(i, {"choiceDefault"}) = {}
         /\ default # "" =>
              \E j \in Successors(i, {"choiceDefault"}) :
                /\ log[j].name = default
                /\ log[j].scope = log[i].scope
                /\ log[j].type =
                     StateOf(stateDefinition, log[i].scope, default).Type

(***************************************************************************)
(* C7.  A Pass state without ResultPath outputs its static Result whenever *)
(* a Result is declared, whatever its value, and otherwise outputs the     *)
(* input event unchanged; its Next state, if any, is dispatched with that  *)
(* output.                                                                 *)
(***************************************************************************)
C7_PassOutputsResultOrInput ==
  \A i \in Lines :
    (/\ IsDispatch(i)
     /\ log[i].type = "Pass"
     /\ SplitDollar(LineState(i).ResultPath) = "") =>
      LET output == IF LineState(i).Result.t # "undef"
                      THEN LineState(i).Result ELSE log[i].ref
      IN /\ i < Len(log)
         /\ log[i + 1].kind = "cb"
         /\ log[i + 1].ref = output
         /\ LineState(i).Next # "" =>
              /\ i + 1 < Len(log)
              /\ IsDispatch(i + 2)
              /\ log[i + 2].name = LineState(i).Next
              /\ log[i + 2].ref = output

IsTimer(i) == log[i].kind = "timer"
\* The instant a Timestamp or TimestampPath Wait at line i waits for
TargetOf(i) ==
  IF log[i].via = "Timestamp" THEN LineState(i).Timestamp
  ELSE log[i].ev.f[SplitDollar(LineState(i).TimestampPath)].n
\* The number a Seconds or SecondsPath Wait at line i was given
SecondsOf(i) ==
  IF log[i].via = "Seconds" THEN LineState(i).Seconds
  ELSE log[i].ev.f[SplitDollar(LineState(i).SecondsPath)].n

(***************************************************************************)
(* C8.  _waitState and the delay of a Wait state.  For Timestamp and       *)
(* TimestampPath the delay is max(0, target - now) in whole seconds, so a  *)
(* past timestamp gives 0; for Seconds and SecondsPath it is the given     *)
(* number unchanged, so Seconds: 0 gives 0, and the delay is negative only *)
(* when the given number of seconds is negative.                           *)
(***************************************************************************)
C8_WaitDelay ==
  \A i \in Lines :
    IsTimer(i) =>
      LET d == log[i].num
          left == TargetOf(i) - log[i].from.at
      IN /\ log[i].via \in {"Timestamp", "TimestampPath"} =>
              /\ d >= 0
              /\ left <= 0 => d = 0
              /\ left > 0 =>
                   d * MsPerSecond <= left /\ left < (d + 1) * MsPerSecond
         /\ log[i].via \in {"Seconds", "SecondsPath"} => d = SecondsOf(i)
         /\ d < 0 => log[i].via \in {"Seconds", "SecondsPath"}

\* C8, its case: a Wait for an instant in the past was given the delay 0,
\* its timer has fired and its Next state has been dispatched
C8_PastTimestampWaitsZero ==
  \E i \in Lines :
    /\ IsTimer(i)
    /\ log[i].via \in {"Timestamp", "TimestampPath"}
    /\ TargetOf(i) < log[i].from.at
    /\ log[i].num = 0
    /\ \E j \in Lines : IsDispatch(j) /\ log[j].via = "cbNext"

\* C8 as the specification states it: the delay _waitState returns is never
\* negative
C8_DelayNeverNegative == \A i \in Lines : IsTimer(i) => log[i].num >= 0

(***************************************************************************)
(* C9.  The outcome delivered to the caller of buildStepWorkFlow tells a   *)
(* run that reached a Fail state from a run that ended in Succeed or ran   *)
(* out of states: the former yields a failure object carrying the state's  *)
(* Cause and Error, the latter the final event.                            *)
(* Stated on the promise buildStepWorkFlow returns: once it is fulfilled   *)
(* in a run whose main flow dispatched a Fail state, its value is not      *)
(* undefined.                                                              *)
(***************************************************************************)
C9_FailOutcomeCarriesFailure ==
  (/\ topPromise.st = "fulfilled"
   /\ \E i \in Lines :
        IsDispatch(i) /\ log[i].type = "Fail" /\ log[i].scope = "main") =>
    topPromise.value # VUndef

(***************************************************************************)
(* C10.  Once a Succeed or a Fail state has been dispatched in any scope,  *)
(* the whole execution is terminated: no state is dispatched afterwards in *)
(* any scope, be it the state's own Next, a sibling Parallel branch, the   *)
(* enclosing Parallel's Next or a remaining Map iteration.                 *)
(***************************************************************************)
C10_NothingAfterSucceedOrFail ==
  \A i \in Lines :
    (IsDispatch(i) /\ log[i].type \in {"Succeed", "Fail"}) =>
      \A j \in Lines :
        (j > i /\ IsDispatch(j)) => log[j].type = "undefined"

(***************************************************************************)
(* C11.  A fatal error raised in any scope (a missing handler, an          *)
(* unsupported Wait field, a missing Wait path), be it in the main flow,   *)
(* in a Parallel branch, in a Map iteration or in the continuation of a    *)
(* Wait timer, reaches the caller as a rejection of the promise of         *)
(* buildStepWorkFlow, and after it no further state is dispatched.         *)
(* Stated on the history: no line after an error line dispatches a state,  *)
(* and once the run has nothing left to do, or has been ended by an        *)
(* uncaught exception, the promise is rejected.                            *)
(***************************************************************************)
C11_FaultAbortsRun ==
  \A i \in Lines :
    log[i].kind = "error" =>
      /\ \A j \in Lines :
           (j > i /\ IsDispatch(j)) => log[j].type = "undefined"
      /\ (Quiet \/ crashed) => topPromise.st = "rejected"

\* A Task state whose handler resolves: its name is mapped to a function of
\* the service that declares a handler
HandlerResolves(name) ==
  ~MissingHandler(name) /\ definitionIsHandler(functions[variables[name]])

(***************************************************************************)
(* C12.  For a Task state whose handler resolves, process invokes the      *)
(* handler once with the state's input event and the context object, and   *)
(* when the handler calls back with a result the Task's Next state is      *)
(* dispatched with it; a run in which every Task resolves raises no error. *)
(* Stated on the history, for handlers that call back as they are expected *)
(* to: once the run has nothing left to do and no error was raised, the    *)
(* Next state of every such Task has been dispatched in the Task's scope   *)
(* after the Task.                                                         *)
(***************************************************************************)
C12_ResolvedTaskContinues ==
  \A i \in Lines :
    (/\ IsDispatch(i)
     /\ log[i].type = "Task"
     /\ HandlerResolves(log[i].name)
     /\ LineState(i).Next # ""
     /\ Quiet
     /\ \A k \in Lines : log[k].kind # "error") =>
      \E j \in Lines :
        /\ j > i
        /\ IsDispatch(j)
        /\ log[j].scope = log[i].scope
        /\ log[j].name = LineState(i).Next

\* Line i dispatches a name that is no state of the scope the transition
\* was made in: a StartAt, or the target of a state of that scope
Dangling(i) ==
  /\ IsDispatch(i)
  /\ log[i].type = "undefined"
  /\ \/ log[i].via \in {"start", "subStart", "branchStart"}
     \/ StateOf(stateDefinition, log[i].from.scope, log[i].name).Type
          = "undefined"

(***************************************************************************)
(* C13.  A transition whose target name is no state of the current scope   *)
(* (the Next of a state, the Next of a Choice rule, a Default, a StartAt)  *)
(* is a fatal error that aborts the run, never a silent end of the scope.  *)
(* Stated on the history: the line after the dispatch of such a name is an *)
(* error.                                                                  *)
(***************************************************************************)
C13_DanglingTargetIsFatal ==
  \A i \in Lines :
    Dangling(i) => i < Len(log) /\ log[i + 1].kind = "error"

\* Line k is the continuation of a Wait state: its timer has fired
IsWaitContinuation(k) == log[k].kind = "cb" /\ log[k].type = "Wait"
\* The line where the Wait state continued at line k scheduled its timer
TimerLineOf(k) ==
  CHOOSE t \in 1..(k - 1) :
    /\ IsTimer(t)
    /\ log[t].scope = log[k].scope
    /\ log[t].name = log[k].name
    /\ \A u \in (t + 1)..(k - 1) :
         ~(IsTimer(u) /\ log[u].scope = log[k].scope
                      /\ log[u].name = log[k].name)

(***************************************************************************)
(* C14.  When the timer of a Wait state fires, the continuation dispatches *)
(* the Next of that same Wait state, in the Wait's scope, with the Wait's  *)
(* unmodified input event, whatever other states were dispatched between   *)
(* the scheduling of the timer and its firing; a Wait state without Next   *)
(* dispatches nothing.                                                     *)
(***************************************************************************)
C14_WaitContinuesItsOwnState ==
  \A k \in Lines :
    IsWaitContinuation(k) =>
      LET next == LineState(k).Next
          continued == k < Len(log) /\ IsDispatch(k + 1)
                       /\ log[k + 1].via = "cbNext"
      IN /\ next = "" => ~continued
         /\ next # "" =>
              /\ continued
              /\ log[k + 1].scope = log[k].scope
              /\ log[k + 1].name = next
              /\ log[k + 1].ref = log[TimerLineOf(k)].ref
              /\ log[k + 1].ev = log[TimerLineOf(k)].ev

\* A definition made of Pass and Wait states whose Next, if any, is a state
\* of the definition: it ends exactly when a state without Next completes
PlainScope(scope) ==
  LET sts == stateDefinition[scope].States
  IN /\ stateDefinition[scope].StartAt \in DOMAIN sts
     /\ \A n \in DOMAIN sts :
          /\ sts[n].Type \in {"Pass", "Wait"}
          /\ sts[n].Next \in DOMAIN sts \cup {""}

(***************************************************************************)
(* C15.  Map iterations run strictly one at a time: the first state of the *)
(* iteration for the next item is dispatched only after the iteration for  *)
(* the item before has reached its terminal state, and the Map's Next only *)
(* after the last iteration has; also when the iterator holds states that  *)
(* complete later (Wait timers).                                           *)
(* Stated on the history, for iterators made of Pass and Wait states:      *)
(* between the start of an iteration and any later start of an iteration   *)
(* or dispatch of the Map's Next, a state of the iterator without Next has *)
(* completed.                                                              *)
(***************************************************************************)
C15_MapIterationsInSequence ==
  \A i \in Lines :
    (/\ IsDispatch(i)
     /\ log[i].type = "Map"
     /\ PlainScope(LineState(i).Iterator)) =>
      \A p \in Successors(i, {"subStart"}) :
        \A j \in Successors(i, {"subStart", "mapNext"}) :
          p < j => BranchDone(LineState(i).Iterator, p, j)

(***************************************************************************)
(* C16.  Every branch of a Parallel state starts from the same input: the  *)
(* event the first state of each branch is dispatched with equals the      *)
(* event as it was when the Parallel state was entered, whatever earlier   *)
(* branches wrote (a Pass with ResultPath) and whatever Parallel state     *)
(* ran nested in an earlier branch.                                        *)
(***************************************************************************)
C16_BranchesSeeParallelInput ==
  \A i \in Lines :
    (IsDispatch(i) /\ log[i].type = "Parallel") =>
      \A j \in Successors(i, {"branchStart"}) : log[j].ev = log[i].ev

\* The transitions whose target a state names: the Next of the state the
\* callback completes, a Choice rule's Next, a Default, the Next of a Map
\* and of a Parallel state
NamedTransitions ==
  {"cbNext", "choiceRule", "choiceDefault", "mapNext", "parallelNext"}

(***************************************************************************)
(* C17.  Every transition taken inside a sub-scope (a Parallel branch or a *)
(* Map iterator) resolves its target name in that sub-scope's own States:  *)
(* the callback's Next, a Choice rule's Next, a Default, and the Next of a *)
(* Parallel or Map state nested in the sub-scope never dispatch a state    *)
(* taken from the main definition or from another scope.                   *)
(* Stated on the history: a line that dispatches the target of a state of  *)
(* a sub-scope looks the name up in that sub-scope.                        *)
(***************************************************************************)
C17_TargetsResolveInOwnScope ==
  \A j \in Lines :
    (/\ IsDispatch(j)
     /\ log[j].via \in NamedTransitions
     /\ log[j].from.scope \notin {"", "main"}) =>
      log[j].scope = log[j].from.scope

\* The lines between i and j where a state without Next of the iterator of
\* the Map dispatched at line i completed: the ends of its iterations
IterationEnds(i, j) ==
  {k \in (i + 1)..(j - 1) :
     /\ log[k].kind = "cb"
     /\ log[k].scope = LineState(i).Iterator
     /\ LineState(k).Next = ""}
\* What the Map dispatched at line i had written at its ResultPath when it
\* dispatched its Next at line j
ResultsAt(i, j) ==
  IF Kind(log[j].ev) = "obj"
       /\ SplitDollar(LineState(i).ResultPath) \in Keys
    THEN log[j].ev.f[SplitDollar(LineState(i).ResultPath)]
    ELSE VUndef

(***************************************************************************)
(* C18.  The results array a Map state writes at its ResultPath holds only *)
(* the terminal results of that Map's own iterations, one per item: a Map  *)
(* or Parallel state nested in the iterator neither discards results the   *)
(* outer Map has accumulated nor adds its own branch or iteration results, *)
(* and results of terminal states outside the Map never appear in it.      *)
(* Stated on the history, when the Map dispatches its Next: the array has  *)
(* no more entries than iterations were started, no fewer than iterations  *)
(* have ended, and every entry is the result an iteration ended with.      *)
(***************************************************************************)
C18_MapResultsAreItsOwn ==
  \A i \in Lines :
    (IsDispatch(i) /\ log[i].type = "Map" /\ log[i].scope = "main") =>
      \A j \in Successors(i, {"mapNext"}) :
        LET res == ResultsAt(i, j)
            started == {k \in Successors(i, {"subStart"}) : k < j}
        IN /\ Kind(res) = "arr"
           /\ Len(res.a) <= Cardinality(started)
           /\ Cardinality(IterationEnds(i, j)) <= Len(res.a)
           /\ \A e \in 1..Len(res.a) :
                \E k \in IterationEnds(i, j) : res.a[e] = log[k].ev

\* The dispatches of Task states, and the latest of them
TaskLines == {i \in Lines : IsDispatch(i) /\ log[i].type = "Task"}
LastTask == CHOOSE i \in TaskLines : \A j \in TaskLines : j <= i
\* The environment overrides the function of Task state name declares
Declared(name) ==
  IF MissingHandler(name) THEN <<>> ELSE functions[variables[name]].environment
\* The overrides among them that belong to a function with a handler
DeclaredWithHandler(name) ==
  IF HandlerResolves(name) THEN Declared(name) ELSE <<>>
\* env is the stored baseline with the variables of overrides replaced
IsOverlay(env, overrides) ==
  \A k \in EnvKeys :
    env[k] = IF k \in DOMAIN overrides THEN overrides[k]
             ELSE environmentVariables[k]
\* The baseline is what loadEnvVariables stored
BaselineKept ==
  environmentVariables = [HostEnv EXCEPT !["STEP_IS_OFFLINE"] = "true"]

(***************************************************************************)
(* C19 as amended.  After any sequence of Task dispatches the process      *)
(* environment equals the stored baseline overlaid with the overrides of   *)
(* the most recently dispatched Task only, when the function of that Task  *)
(* is defined and declares a handler, and equals the baseline alone when   *)
(* it is not; no override of an earlier Task is visible, and the stored    *)
(* baseline is never modified.                                             *)
(***************************************************************************)
C19_EnvIsBaselineAndLatestHandler ==
  /\ BaselineKept
  /\ TaskLines # {} =>
       IsOverlay(processEnv, DeclaredWithHandler(log[LastTask].name))

\* A Task that overrides B was dispatched after one that overrides A: A is
\* back at its baseline value and B has the override
C19_LaterTaskReplacesEarlier ==
  /\ TaskLines # {}
  /\ log[LastTask].name = "T4"
  /\ \E i \in TaskLines : i < LastTask /\ log[i].name = "T"
  /\ processEnv["A"] = environmentVariables["A"]
  /\ processEnv["B"] = "u"

(***************************************************************************)
(* C19.  After any sequence of Task dispatches, the process environment    *)
(* equals the baseline captured by loadEnvVariables overlaid with the      *)
(* environment overrides of the most recently dispatched Task only, and    *)
(* the stored baseline itself is never modified by a Task dispatch.        *)
(***************************************************************************)
C19_EnvIsBaselineAndLatestTask ==
  /\ BaselineKept
  /\ TaskLines # {} => IsOverlay(processEnv, Declared(log[LastTask].name))

\* The step is a handler signalling failure: its first new line of the
\* history is a signal with a truthy error value
FailureSignalled ==
  /\ Len(log') > Len(log)
  /\ log'[Len(log) + 1].kind = "signal"
  /\ Truthy(log'[Len(log) + 1].ref)

NewLines == (Len(log) + 1)..Len(log')

(***************************************************************************)
(* C21.  The promise returned by buildStepWorkFlow settles only when the   *)
(* workflow has been driven to completion: once it is fulfilled no state   *)
(* is dispatched, no completion callback runs and no Wait timer fires or   *)
(* is scheduled, in any scope.                                             *)
(***************************************************************************)
C21_NothingRunsAfterThePromiseResolved ==
  [][topPromise.st = "fulfilled" =>
       /\ timers' = timers
       /\ \A k \in NewLines : log'[k].kind \notin {"dispatch", "cb", "timer"}]_vars

\* A value of the history that is not an object or an array
IsScalar(ev) == Kind(ev) \notin {"obj", "arr", "cut"}
\* The value at the path segs inside the event ev of a line of the history
RECURSIVE SnapPath(_, _)
SnapPath(ev, segs) ==
  IF segs = <<>> THEN ev
  ELSE IF Kind(ev) # "obj" \/ Head(segs) \notin Keys THEN VUndef
  ELSE SnapPath(ev.f[Head(segs)], Tail(segs))
\* The event out is the event in, as far as it is on view in both
SameAsOnEntry(out, in) ==
  /\ Kind(out) = "obj"
  /\ \A key \in Keys : IsScalar(in.f[key]) => out.f[key] = in.f[key]

(***************************************************************************)
(* C22.  A Pass state with ResultPath writes, at the location addressed by *)
(* that dotted path inside the event (nested for a path such as $.a.b),    *)
(* the static Result if declared and otherwise the whole input event as it *)
(* was on entry, and forwards the same event object, otherwise unchanged,  *)
(* to Next.  Stated on the history, for the completion callback that       *)
(* follows the dispatch of such a state on an object event.                *)
(***************************************************************************)
C22_PassWritesAtResultPath ==
  \A i \in Lines :
    (/\ IsDispatch(i)
     /\ log[i].type = "Pass"
     /\ LineState(i).ResultPath # NoPath
     /\ LineState(i).ResultPath.dollar
     /\ Kind(log[i].ev) = "obj"
     /\ i < Len(log)
     /\ log[i + 1].kind = "cb") =>
      LET segs == LineState(i).ResultPath.segs
          result == LineState(i).Result
          in == log[i].ev
          out == log[i + 1].ev
          written == SnapPath(out, segs)
      IN /\ log[i + 1].ref = log[i].ref
         /\ Kind(out) = "obj"
         /\ IF result # VUndef
              THEN written = Snap(heap, result, 3 - Len(segs))
              ELSE SameAsOnEntry(written, in)
         /\ \A key \in Keys \ {segs[1]} : out.f[key] = in.f[key]

\* The wait fields the Wait state dispatched at line i declares
DeclaredWaitFields(i) ==
  {LineState(i).Fields[k] : k \in 1..Len(LineState(i).Fields)}
    \cap waitListKeys
\* The path the Wait state dispatched at line i reads its time from, if it
\* declares one, and whether the event holds a value there
WaitPathOf(i) ==
  IF DeclaredWaitFields(i) = {"SecondsPath"} THEN LineState(i).SecondsPath
  ELSE IF DeclaredWaitFields(i) = {"TimestampPath"}
    THEN LineState(i).TimestampPath
  ELSE NoPath
PathIsMissing(i) ==
  /\ WaitPathOf(i) # NoPath
  /\ SnapPath(log[i].ev, WaitPathOf(i).segs) = VUndef
\* The dispatch at line i ended in the error err of its own state, with no
\* timer scheduled and its Next not dispatched
AbortedWith(i, errs) ==
  /\ i < Len(log)
  /\ log[i + 1].kind = "error"
  /\ log[i + 1].via \in errs
  /\ log[i + 1].name = log[i].name
  /\ log[i + 1].scope = log[i].scope
  /\ \A k \in Lines :
       k > i =>
         /\ ~(log[k].kind = "timer" /\ log[k].name = log[i].name
              /\ log[k].scope = log[i].scope)
         /\ ~(IsDispatch(k) /\ log[k].via = "cbNext"
              /\ log[k].from.name = log[i].name
              /\ log[k].from.scope = log[i].scope)

(***************************************************************************)
(* C23.  A Wait state with SecondsPath or TimestampPath whose path does    *)
(* not reference a value in the event raises a fatal error that names the  *)
(* Wait state, and a Wait state declaring none of Seconds, Timestamp,      *)
(* SecondsPath, TimestampPath raises the unsupported-operator error; in    *)
(* both cases no timer is scheduled and the Next is never dispatched.  A   *)
(* Wait state that declares exactly one of the four fields never raises    *)
(* the unsupported-operator error, whatever other fields it carries.       *)
(***************************************************************************)
C23_WaitErrors ==
  \A i \in Lines :
    (IsDispatch(i) /\ log[i].type = "Wait") =>
      /\ PathIsMissing(i) =>
           AbortedWith(i, {"SecondsPathMissing", "TimestampPathMissing"})
      /\ DeclaredWaitFields(i) = {} =>
           AbortedWith(i, {"UnsupportedWaitOperator"})
      /\ Cardinality(DeclaredWaitFields(i)) = 1 =>
           ~(/\ i < Len(log)
             /\ log[i + 1].kind = "error"
             /\ log[i + 1].via = "UnsupportedWaitOperator")

\* The iterations of the Map dispatched at line i, and the place of the one
\* started at line j among them
Iterations(i) == Successors(i, {"subStart"})
Rank(i, j) == Cardinality({k \in Iterations(i) : k <= j})
\* The object the Parameters of the Map dispatched at line i describe for
\* its n-th item
ParamsOf(i, n) ==
  LET params == LineState(i).Parameters
      named(key) == {q \in 1..Len(params) : params[q].dyn /\ params[q].key = key}
      value(p) == IF p.src = "item" THEN ItemsOf(i)[n]
                  ELSE SnapPath(log[i].ev, p.path.segs)
  IN [k |-> "obj",
      f |-> [key \in Keys |->
               IF named(key) = {} THEN VUndef
               ELSE value(params[CHOOSE q \in named(key) : TRUE])]]

(***************************************************************************)
(* C24.  For each Map item, the input event of the iteration is the object *)
(* built from the Map's Parameters: every key `k.$' gives k the current    *)
(* item when its value is $$.Map.Item.Value, or the value at that path in  *)
(* the outer event when its value starts with `$.'; the i-th iteration     *)
(* receives the i-th item, and the source array in the outer event is left *)
(* unmodified.  Stated on the history: the n-th iteration started has the  *)
(* object of the n-th item as its event, and when the Map dispatches its   *)
(* Next every item has had its iteration and the array is as it was.       *)
(***************************************************************************)
C24_IterationGetsItsItem ==
  \A i \in Lines :
    (IsDispatch(i) /\ log[i].type = "Map" /\ log[i].scope = "main") =>
      /\ \A j \in Iterations(i) :
           /\ Rank(i, j) <= Len(ItemsOf(i))
           /\ log[j].ev = ParamsOf(i, Rank(i, j))
      /\ \A j \in Successors(i, {"mapNext"}) :
           /\ \A n \in 1..Len(ItemsOf(i)) :
                \E k \in Iterations(i) : k < j /\ Rank(i, k) = n
           /\ Kind(log[j].ev) = "obj"
           /\ log[j].ev.f["items"] = log[i].ev.f["items"]

\* The states of the main flow on the path the definition lays out from
\* StartAt, as far as Next alone decides it: a Choice, a Succeed or a Fail
\* state ends it here
MainStates == stateDefinition["main"].States
RECURSIVE PathFrom(_, _)
PathFrom(name, seen) ==
  IF name \notin DOMAIN MainStates \/ name \in seen THEN seen
  ELSE IF MainStates[name].Type \in {"Choice", "Succeed", "Fail"}
         \/ MainStates[name].Next = ""
    THEN seen \cup {name}
    ELSE PathFrom(MainStates[name].Next, seen \cup {name})
TakenPath == PathFrom(stateDefinition["main"].StartAt, {})
\* How often the state name of the main flow was dispatched
Dispatches(name) ==
  Cardinality({i \in Lines :
                 IsDispatch(i) /\ log[i].scope = "main" /\ log[i].name = name})
\* No error was raised in the run
NoErrors ==
  /\ ~crashed
  /\ faults = <<>>
  /\ topPromise.st # "rejected"
  /\ \A i \in Lines : log[i].kind # "error"
\* No step can be taken any more: the process has ended, or the run was
\* started and neither a job nor a timer is left
Stopped == crashed \/ (topPromise.st # "none" /\ Quiet)
\* The promise is settled and, in a run without errors, each state on the
\* path of the main flow was dispatched once
Quiescent ==
  /\ topPromise.st \in {"fulfilled", "rejected"}
  /\ NoErrors => \A name \in TakenPath : Dispatches(name) = 1

(***************************************************************************)
(* C25.  For a definition whose transitions are acyclic in every scope,    *)
(* with finite Map arrays, every scheduled timer firing in the end, the    *)
(* execution eventually reaches a quiescent state: no timer is pending, no *)
(* state remains to be dispatched, the promise of buildStepWorkFlow is     *)
(* settled, and each state of the main flow on the taken path was          *)
(* dispatched exactly once.  Every run checked is finite, so the state it  *)
(* reaches in the end is the one where no step can be taken any more: that *)
(* state is the quiescent state of the claim.                              *)
(***************************************************************************)
C25_StoppedIsQuiescent == Stopped => Quiescent

============================================================================
